---- MODULE Spec2Model ----
(***************************************************************************)
(* Hades-Mailer: the startup gate of app.js and the two request handlers   *)
(* of the router, POST /sendMail (batch) and POST /sendMail/:customEmail   *)
(* (direct).  A handler runs atomically between two awaits, so every       *)
(* action below is one run of a handler from one suspension point to the   *)
(* next (or to its end).  The registry (axios), the QR encoder (qrcode)    *)
(* and the mail provider (@sendgrid/mail) are the environment: each call   *)
(* settles with one of the outcomes enumerated here.                       *)
(***************************************************************************)
EXTENDS Integers, Sequences, FiniteSets

(***************************************************************************)
(* Bounds                                                                  *)
(***************************************************************************)
\* longest participant list the registry returns
MaxRecipients == 2

\* the request slots: handlers of different requests interleave at awaits
Requests == {"r1", "r2"}

(***************************************************************************)
(* Strings.  Strings the code inspects or concatenates are sequences of    *)
(* tokens; the others are TLA+ strings.                                    *)
(***************************************************************************)
AddrA == <<"a", "@", "x">>
AddrB == <<"b", "@", "x">>
BadAddr == <<"a", "x">>
Empty == <<>>
Fest == <<"F">>
Gala == <<"G">>

\* JSON booleans, as opposed to the strings "true" and "false"
JsTrue == "bool:true"
JsFalse == "bool:false"

\* a field the request does not carry (undefined)
Undefined == "undefined"

\* String(value), as express-validator applies it before validating
StringOf(v) ==
    CASE v = JsTrue -> "true"
      [] v = JsFalse -> "false"
      [] v = Undefined -> ""
      [] OTHER -> v

\* JavaScript truthiness of a request field
Truthy(v) == v \notin {"", JsFalse, Undefined}

(***************************************************************************)
(* Validators (express-validator chains of the two routes)                 *)
(***************************************************************************)
\* isEmpty on a plain string and on a token string
IsEmpty(s) == s = ""

IsEmptySeq(s) == Len(s) = 0

IsInt(s) == s \in {"0", "1", "2", "3"}

IsBoolean(s) == s \in {"true", "false", "1", "0"}

AtPositions(s) == {i \in 1..Len(s) : s[i] = "@"}

\* isEmail: one "@" with a local part before it and a domain after it
IsEmail(s) ==
    /\ Cardinality(AtPositions(s)) = 1
    /\ \A i \in AtPositions(s) : 1 < i /\ i < Len(s)

\* the checks of POST /sendMail, in the order of the chain; TRUE = the check fails
BatchFails(b) ==
    [eventName |-> IsEmptySeq(b.eventName),
     mailSubject |-> IsEmpty(b.mailSubject),
     mailBody |-> IsEmptySeq(b.mailBody),
     sendTo |-> IsEmpty(b.sendTo) \/ b.sendTo \notin {"absent", "present", "both"},
     gender |-> IsEmpty(b.gender) \/ b.gender \notin {"male", "female", "both"},
     isMarkdown |-> IsEmpty(StringOf(b.isMarkdown)) \/ ~IsBoolean(StringOf(b.isMarkdown)),
     day |-> IsEmpty(b.day) \/ ~IsInt(b.day)]

BatchParams == <<"eventName", "mailSubject", "mailBody", "sendTo", "gender", "isMarkdown", "day">>

\* DirectFails without isEmail on the address
DirectFailsNoIsEmail(b) ==
    [eventName |-> IsEmptySeq(b.eventName),
     mailSubject |-> IsEmpty(b.mailSubject),
     mailBody |-> IsEmptySeq(b.mailBody),
     isMarkdown |-> IsEmpty(StringOf(b.isMarkdown)) \/ ~IsBoolean(StringOf(b.isMarkdown)),
     customEmail |-> IsEmptySeq(b.customEmail)]

\* the checks of POST /sendMail/:customEmail
DirectFails(b) ==
    [eventName |-> IsEmptySeq(b.eventName),
     mailSubject |-> IsEmpty(b.mailSubject),
     mailBody |-> IsEmptySeq(b.mailBody),
     isMarkdown |-> IsEmpty(StringOf(b.isMarkdown)) \/ ~IsBoolean(StringOf(b.isMarkdown)),
     customEmail |-> IsEmptySeq(b.customEmail) \/ ~IsEmail(b.customEmail)]

DirectParams == <<"eventName", "mailSubject", "mailBody", "isMarkdown", "customEmail">>

\* validationResult(req).array(): the failing params, in chain order
ErrorsOf(params, fails) ==
    LET Failing(p) == fails[p] IN SelectSeq(params, Failing)

(***************************************************************************)
(* Sanitizers and the markdown converter                                   *)
(***************************************************************************)
RECURSIVE TrimLeft(_)
TrimLeft(s) == IF s # <<>> /\ Head(s) = " " THEN TrimLeft(Tail(s)) ELSE s

RECURSIVE TrimRight(_)
TrimRight(s) ==
    IF s # <<>> /\ s[Len(s)] = " " THEN TrimRight(SubSeq(s, 1, Len(s) - 1)) ELSE s

Trim(s) == TrimRight(TrimLeft(s))

EscapeToken(c) ==
    CASE c = "<" -> "&lt;"
      [] c = ">" -> "&gt;"
      [] c = "&" -> "&amp;"
      [] OTHER -> c

Escape(s) == [i \in 1..Len(s) |-> EscapeToken(s[i])]

\* check('mailBody')...trim().escape() replaces req.body.mailBody
SanitizeBody(s) == Escape(Trim(s))

\* "**" opens <strong> when another "**" closes it later, else it stays literal
RECURSIVE Strong(_, _)
Strong(s, open) ==
    IF s = <<>> THEN <<>>
    ELSE IF Head(s) = "**" /\ open THEN <<"</strong>">> \o Strong(Tail(s), FALSE)
    ELSE IF Head(s) = "**" /\ (\E i \in 1..Len(Tail(s)) : Tail(s)[i] = "**")
         THEN <<"<strong>">> \o Strong(Tail(s), TRUE)
    ELSE <<Head(s)>> \o Strong(Tail(s), open)

\* converter.makeHtml: a paragraph around the inline rendering
MakeHtml(s) == IF s = <<>> THEN <<>> ELSE <<"<p>">> \o Strong(s, FALSE) \o <<"</p>">>

(***************************************************************************)
(* Credential: md5 and qr.toDataURL                                        *)
(***************************************************************************)
\* md5 as a tag on its input: equal inputs give equal digests
Md5(s) == [md5 |-> s]

PngHeader == "data:image/png;base64,"

\* the data URL qr.toDataURL resolves to
ToDataURL(token) == [defined |-> TRUE, header |-> PngHeader, data |-> token]

\* `let code;` before any assignment
NoCode == [defined |-> FALSE, header |-> "", data |-> Md5(<<>>)]

\* code.replace(/^data:image\/(png|jpg);base64,/, "")
StripHeader(c) ==
    IF c.header \in {"data:image/png;base64,", "data:image/jpg;base64,"}
    THEN [header |-> "", data |-> c.data]
    ELSE [header |-> c.header, data |-> c.data]

FromEmail == <<"f", "@", "x">>

\* the msg object literal of both handlers
Compose(to, b, c) ==
    [to |-> to,
     from |-> FromEmail,
     subject |-> b.mailSubject,
     html |-> IF Truthy(b.isMarkdown) THEN MakeHtml(b.mailBody) ELSE b.mailBody,
     attachments |-> <<[content |-> StripHeader(c),
                        filename |-> "qrcode.png",
                        type |-> "image/png",
                        disposition |-> "attachment"]>>]

(***************************************************************************)
(* Audience query                                                          *)
(***************************************************************************)
\* GenderCode sending 'M' for 'male' only
GenderCodeMaleOnly(gender) == IF gender = "male" THEN "M" ELSE "F"

\* value: gender === 'female' ? 'F' : 'M'
GenderCode(gender) == IF gender = "female" THEN "F" ELSE "M"

AudienceQuery(b) ==
    [key |-> "gender", value |-> GenderCode(b.gender), specific |-> b.specific]

\* UpstreamCalls with a project-present endpoint for 'present'
UpstreamCallsPresent(b, accessToken) ==
    CASE b.sendTo = "absent" ->
           <<[url |-> "simple-projection/project-absent",
              authorization |-> accessToken,
              data |-> [event |-> b.eventName, day |-> b.day, query |-> AudienceQuery(b)]]>>
      [] b.sendTo = "present" ->
           <<[url |-> "simple-projection/project-present",
              authorization |-> accessToken,
              data |-> [event |-> b.eventName, day |-> b.day, query |-> AudienceQuery(b)]]>>
      [] b.sendTo = "both" ->
           <<[url |-> "simple-projection/project-all",
              authorization |-> accessToken,
              data |-> [event |-> b.eventName, query |-> AudienceQuery(b)]]>>
      [] OTHER -> <<>>

\* the instance.post call of the branch `switch (sendTo)` takes; none when no case matches
UpstreamCalls(b, accessToken) ==
    CASE b.sendTo = "absent" ->
           <<[url |-> "simple-projection/project-absent",
              authorization |-> accessToken,
              data |-> [event |-> b.eventName, day |-> b.day, query |-> AudienceQuery(b)]]>>
      [] b.sendTo = "present" ->
           <<[url |-> "simple-projection/project-absent",
              authorization |-> accessToken,
              data |-> [event |-> b.eventName, day |-> b.day, query |-> AudienceQuery(b)]]>>
      [] b.sendTo = "both" ->
           <<[url |-> "simple-projection/project-all",
              authorization |-> accessToken,
              data |-> [event |-> b.eventName, query |-> AudienceQuery(b)]]>>
      [] OTHER -> <<>>

\* `let response;` before any assignment, and after a caught registry error
NoResponse == [defined |-> FALSE, hasRs |-> FALSE, rs |-> <<>>]

\* AudienceCheck without the length test
AudienceCheckNoLength(response) ==
    IF ~response.defined THEN "empty"
    ELSE IF ~response.hasRs THEN "throws"
    ELSE "resolved"

\* AudienceCheck without the typeof test: response.rs of undefined throws
AudienceCheckNoTypeof(response) ==
    IF ~response.defined \/ ~response.hasRs THEN "throws"
    ELSE IF Len(response.rs) = 0 THEN "empty"
    ELSE "resolved"

\* the test of line 179: "throws" when response.rs is not there to take .length of
AudienceCheck(response) ==
    IF ~response.defined THEN "empty"
    ELSE IF ~response.hasRs THEN "throws"
    ELSE IF Len(response.rs) = 0 THEN "empty"
    ELSE "resolved"

(***************************************************************************)
(* HTTP responses                                                          *)
(***************************************************************************)
NoCount == -1

ValidationFailed(errors) ==
    [code |-> 422, status |-> "ValidationFailed",
     err |-> [kind |-> "array", v |-> errors], participants |-> NoCount]

EmptyParticipants ==
    [code |-> 500, status |-> "EmptyParticipants",
     err |-> [kind |-> "string", v |-> <<"Participant list is empty">>],
     participants |-> NoCount]

BatchSuccess(response) ==
    [code |-> 200, status |-> "success",
     err |-> [kind |-> "null", v |-> <<>>], participants |-> Len(response.rs)]

DirectSuccess ==
    [code |-> 200, status |-> "success",
     err |-> [kind |-> "null", v |-> <<>>], participants |-> NoCount]

MailNotSent(e) ==
    [code |-> 500, status |-> "MailNotSent",
     err |-> [kind |-> "error", v |-> <<e>>], participants |-> NoCount]

(***************************************************************************)
(* Requests and environment outcomes                                       *)
(***************************************************************************)
\* a valid POST /sendMail request; the slices below vary it
BaseBatch ==
    [eventName |-> Fest, mailSubject |-> "s", mailBody |-> <<"hi">>,
     sendTo |-> "absent", gender |-> "male", isMarkdown |-> JsFalse,
     day |-> "1", specific |-> Undefined, accessToken |-> "tok"]

\* every audience selection, on two days
BatchByAudience ==
    {[BaseBatch EXCEPT !.sendTo = st, !.gender = g, !.day = d] :
        st \in {"absent", "present", "both"},
        g \in {"male", "female", "both"},
        d \in {"1", "2"}}

\* every form of the markdown flag, on bodies the sanitizers and the converter change
BatchByBody ==
    {[BaseBatch EXCEPT !.isMarkdown = m, !.mailBody = body, !.specific = sp] :
        m \in {JsTrue, JsFalse, "false"},
        body \in {<<"**", "hi", "**">>, <<" ", "<", "hi">>},
        sp \in {Undefined, "yes"}}

\* one failing field each, and two at once
BatchInvalid ==
    {[BaseBatch EXCEPT !.eventName = Empty],
     [BaseBatch EXCEPT !.mailSubject = ""],
     [BaseBatch EXCEPT !.mailBody = Empty],
     [BaseBatch EXCEPT !.sendTo = "everyone"],
     [BaseBatch EXCEPT !.sendTo = Undefined],
     [BaseBatch EXCEPT !.gender = "other"],
     [BaseBatch EXCEPT !.isMarkdown = "maybe"],
     [BaseBatch EXCEPT !.isMarkdown = Undefined],
     [BaseBatch EXCEPT !.day = "x"],
     [BaseBatch EXCEPT !.mailSubject = "", !.day = ""]}

BatchRequests == BatchByAudience \cup BatchByBody \cup BatchInvalid

\* a valid POST /sendMail/:customEmail request
BaseDirect ==
    [eventName |-> Fest, mailSubject |-> "s", mailBody |-> <<"hi">>,
     isMarkdown |-> JsFalse, customEmail |-> AddrA]

DirectValidSlice ==
    {[BaseDirect EXCEPT !.customEmail = a, !.isMarkdown = m, !.mailBody = body] :
        a \in {AddrA, AddrB},
        m \in {JsTrue, JsFalse, "false"},
        body \in {<<"hi">>, <<"**", "hi", "**">>}}

DirectInvalid ==
    {[BaseDirect EXCEPT !.customEmail = BadAddr],
     [BaseDirect EXCEPT !.customEmail = <<"@", "x">>],
     [BaseDirect EXCEPT !.eventName = Empty],
     [BaseDirect EXCEPT !.mailSubject = ""],
     [BaseDirect EXCEPT !.mailBody = Empty],
     [BaseDirect EXCEPT !.isMarkdown = "maybe"],
     [BaseDirect EXCEPT !.eventName = Empty, !.customEmail = BadAddr]}

\* a second event name, and a body the sanitizers change
DirectOthers ==
    {[BaseDirect EXCEPT !.eventName = Gala, !.customEmail = a] : a \in {AddrA, AddrB}}
      \cup {[BaseDirect EXCEPT !.mailBody = <<" ", "<", "hi">>]}

DirectRequests == DirectValidSlice \cup DirectOthers \cup DirectInvalid

Participants == {[email |-> AddrA], [email |-> AddrB]}

ParticipantLists == UNION {[1..n -> Participants] : n \in 0..MaxRecipients}

\* what `response` holds once the registry call settles: left undefined when the
\* call throws (error or timeout), else the resolved object, whose rs may be missing
RegistryOutcomes ==
    {NoResponse}
      \cup {[defined |-> TRUE, hasRs |-> FALSE, rs |-> <<>>]}
      \cup {[defined |-> TRUE, hasRs |-> TRUE, rs |-> l] : l \in ParticipantLists}

\* mail.send resolves ("ok") or rejects with a provider error
MailErrors == {"BadRequest", "Unavailable"}

MailOutcomes == {"ok"} \cup MailErrors

EnvVars == {"SENDGRID_API_KEY", "BASE_URL", "FROM_EMAIL"}

(***************************************************************************)
(* State                                                                   *)
(***************************************************************************)
VARIABLES
    env,        \* the environment variables that are set
    proc,       \* "starting", "listening" or "exited"
    handler     \* per request: the handler's locals, position and what it did

vars == <<env, proc, handler>>

\* a request slot before its request arrives
Idle ==
    [kind |-> "none",           \* "batch" or "direct"
     pc |-> "idle",             \* "awaitRegistry", "awaitEncode", "awaitSend", "done", "threw"
     req |-> <<>>,              \* req.body, req.params and the token header as received
     body |-> <<>>,             \* the same after the sanitizers of the chain
     invalid |-> <<>>,          \* errors.array()
     response |-> NoResponse,   \* `response`
     code |-> NoCode,           \* `code`
     idx |-> 0,                 \* the participant the for loop is at
     calls |-> <<>>,            \* requests posted to the registry
     encodes |-> <<>>,          \* tokens handed to qr.toDataURL
     sent |-> <<>>,             \* messages handed to mail.send
     settled |-> <<>>,          \* outcomes of the mail.send calls
     res |-> <<>>,              \* responses sent to the caller
     console |-> <<>>,          \* errors written by console.log(e)
     uncaught |-> "",           \* the error the handler's promise rejected with
     trace |-> <<>>]            \* the order of the effects above

Init ==
    /\ env \in SUBSET EnvVars
    /\ proc = "starting"
    /\ handler = [r \in Requests |-> Idle]

(***************************************************************************)
(* Startup (app.js)                                                        *)
(***************************************************************************)
\* Startup checking the API key only
StartupKeyOnly ==
    /\ proc = "starting"
    /\ proc' = IF "SENDGRID_API_KEY" \in env THEN "listening" ELSE "exited"
    /\ UNCHANGED <<env, handler>>

\* process.exit() on the first missing variable, else app.listen
Startup ==
    /\ proc = "starting"
    /\ proc' = IF EnvVars \subseteq env THEN "listening" ELSE "exited"
    /\ UNCHANGED <<env, handler>>

(***************************************************************************)
(* Steps of the handlers, as functions on the handler's record             *)
(***************************************************************************)
Respond(h, response) ==
    [h EXCEPT !.res = Append(@, response), !.trace = Append(@, "respond")]

Log(h, at, e) == [h EXCEPT !.console = Append(@, [at |-> at, e |-> e])]

Throw(h, e) == [h EXCEPT !.pc = "threw", !.uncaught = e]

\* mail.send(msg), msg built from `code`: code.replace throws while code is undefined
ComposeAndSend(h, to) ==
    IF ~h.code.defined
    THEN Throw(h, "TypeError")
    ELSE [h EXCEPT !.pc = "awaitSend",
                   !.sent = Append(@, Compose(to, h.body, h.code)),
                   !.trace = Append(@, "send")]

\* the for loop of POST /sendMail from participant i on, up to its next await
BatchLoop(h, i) ==
    IF i > Len(h.response.rs)
    THEN [h EXCEPT !.pc = "done", !.idx = i]
    ELSE ComposeAndSend([h EXCEPT !.idx = i], h.response.rs[i].email)

\* lines 192-197: `participant` is declared by the for statement below and is not
\* in scope here, so evaluating the argument throws ReferenceError inside the try,
\* before qr.toDataURL is called; `code` stays undefined
BatchEncode(h) ==
    Log([h EXCEPT !.trace = Append(@, "encode")], "encode", "ReferenceError")

\* BatchDispatch answering only after the credential is made
BatchDispatchAnswerLate(h) ==
    CASE AudienceCheck(h.response) = "throws" -> Throw(h, "TypeError")
      [] AudienceCheck(h.response) = "empty" ->
           [Respond(h, EmptyParticipants) EXCEPT !.pc = "done"]
      [] OTHER -> BatchLoop(Respond(BatchEncode(h), BatchSuccess(h.response)), 1)

\* lines 179-220, once `response` is settled
BatchDispatch(h) ==
    CASE AudienceCheck(h.response) = "throws" -> Throw(h, "TypeError")
      [] AudienceCheck(h.response) = "empty" ->
           [Respond(h, EmptyParticipants) EXCEPT !.pc = "done"]
      [] OTHER -> BatchLoop(BatchEncode(Respond(h, BatchSuccess(h.response))), 1)

(***************************************************************************)
(* POST /sendMail                                                          *)
(***************************************************************************)
\* validation, then the registry call of the switch
BatchRequest(r, b) ==
    /\ proc = "listening"
    /\ handler[r].pc = "idle"
    /\ LET errors == ErrorsOf(BatchParams, BatchFails(b))
           h == [handler[r] EXCEPT !.kind = "batch", !.invalid = errors, !.req = b,
                    !.body = [b EXCEPT !.mailBody = SanitizeBody(@)]]
           posts == UpstreamCalls(h.body, h.body.accessToken)
       IN  handler' = [handler EXCEPT ![r] =
             IF errors # <<>>
             THEN [Respond(h, ValidationFailed(errors)) EXCEPT !.pc = "done"]
             ELSE IF posts = <<>>
             THEN BatchDispatch(h)
             ELSE [h EXCEPT !.pc = "awaitRegistry", !.calls = @ \o posts,
                            !.trace = Append(@, "registry")]]
    /\ UNCHANGED <<env, proc>>

\* the registry call resolves or throws; the handler runs on to its next await
RegistrySettles(r, outcome) ==
    /\ proc = "listening"
    /\ handler[r].pc = "awaitRegistry"
    /\ LET h == [handler[r] EXCEPT !.response = outcome]
       IN  handler' = [handler EXCEPT ![r] =
             BatchDispatch(IF outcome.defined THEN h ELSE Log(h, "registry", "Error"))]
    /\ UNCHANGED <<env, proc>>

(***************************************************************************)
(* POST /sendMail/:customEmail                                             *)
(***************************************************************************)
\* DirectRequest hashing the address with the mail body instead of the event name
DirectRequestHashBody(r, b) ==
    /\ proc = "listening"
    /\ handler[r].pc = "idle"
    /\ LET errors == ErrorsOf(DirectParams, DirectFails(b))
           h == [handler[r] EXCEPT !.kind = "direct", !.invalid = errors, !.req = b,
                    !.body = [b EXCEPT !.mailBody = SanitizeBody(@)]]
       IN  handler' = [handler EXCEPT ![r] =
             IF errors # <<>>
             THEN [Respond(h, ValidationFailed(errors)) EXCEPT !.pc = "done"]
             ELSE [h EXCEPT !.pc = "awaitEncode",
                            !.encodes = Append(@, Md5(h.body.customEmail \o h.body.mailBody)),
                            !.trace = Append(@, "encode")]]
    /\ UNCHANGED <<env, proc>>

\* validation, then qr.toDataURL(md5(customEmail + eventName))
DirectRequest(r, b) ==
    /\ proc = "listening"
    /\ handler[r].pc = "idle"
    /\ LET errors == ErrorsOf(DirectParams, DirectFails(b))
           h == [handler[r] EXCEPT !.kind = "direct", !.invalid = errors, !.req = b,
                    !.body = [b EXCEPT !.mailBody = SanitizeBody(@)]]
       IN  handler' = [handler EXCEPT ![r] =
             IF errors # <<>>
             THEN [Respond(h, ValidationFailed(errors)) EXCEPT !.pc = "done"]
             ELSE [h EXCEPT !.pc = "awaitEncode",
                            !.encodes = Append(@, Md5(h.body.customEmail \o h.body.eventName)),
                            !.trace = Append(@, "encode")]]
    /\ UNCHANGED <<env, proc>>

\* qr.toDataURL resolves or throws; then the message is built and handed to mail.send
EncodeSettles(r, ok) ==
    /\ proc = "listening"
    /\ handler[r].pc = "awaitEncode"
    /\ LET h == handler[r]
           token == h.encodes[Len(h.encodes)]
       IN  handler' = [handler EXCEPT ![r] =
             IF ok
             THEN ComposeAndSend([h EXCEPT !.code = ToDataURL(token)], h.body.customEmail)
             ELSE ComposeAndSend(Log(h, "encode", "Error"), h.body.customEmail)]
    /\ UNCHANGED <<env, proc>>

(***************************************************************************)
(* mail.send settles, in either handler                                    *)
(***************************************************************************)
\* DirectAnswer sending the message once more after a failure
DirectAnswerRetry(h, outcome) ==
    IF outcome = "ok"
    THEN [Respond(h, DirectSuccess) EXCEPT !.pc = "done"]
    ELSE IF Len(h.sent) < 2
    THEN ComposeAndSend(Log(h, "mail", outcome), h.body.customEmail)
    ELSE [Respond(Log(h, "mail", outcome), MailNotSent(outcome)) EXCEPT !.pc = "done"]

\* DirectAnswer reporting success whatever mail.send did
DirectAnswerAlwaysSuccess(h, outcome) ==
    [Respond(h, DirectSuccess) EXCEPT !.pc = "done"]

\* lines 338-350: the direct handler answers with the outcome
DirectAnswer(h, outcome) ==
    IF outcome = "ok"
    THEN [Respond(h, DirectSuccess) EXCEPT !.pc = "done"]
    ELSE [Respond(Log(h, "mail", outcome), MailNotSent(outcome)) EXCEPT !.pc = "done"]

\* lines 215-219: the batch handler logs a failure and goes on to the next participant
BatchContinue(h, outcome) ==
    BatchLoop(IF outcome = "ok" THEN h ELSE Log(h, "mail", outcome), h.idx + 1)

MailSettles(r, outcome) ==
    /\ proc = "listening"
    /\ handler[r].pc = "awaitSend"
    /\ LET h == [handler[r] EXCEPT !.settled = Append(@, outcome),
                                   !.trace = Append(@, "settled")]
       IN  handler' = [handler EXCEPT ![r] =
             IF h.kind = "direct" THEN DirectAnswer(h, outcome) ELSE BatchContinue(h, outcome)]
    /\ UNCHANGED <<env, proc>>

Next ==
    \/ Startup
    \/ \E r \in Requests : \E b \in BatchRequests : BatchRequest(r, b)
    \/ \E r \in Requests : \E o \in RegistryOutcomes : RegistrySettles(r, o)
    \/ \E r \in Requests : \E b \in DirectRequests : DirectRequest(r, b)
    \/ \E r \in Requests : \E ok \in BOOLEAN : EncodeSettles(r, ok)
    \/ \E r \in Requests : \E o \in MailOutcomes : MailSettles(r, o)

Spec == Init /\ [][Next]_vars

TypeOK ==
    /\ proc \in {"starting", "listening", "exited"}
    /\ \A r \in Requests :
         handler[r].pc \in {"idle", "awaitRegistry", "awaitEncode", "awaitSend", "done", "threw"}

(***************************************************************************)
(* Properties                                                              *)
(***************************************************************************)
Stopped(h) == h.pc \in {"done", "threw"}

\* the registry resolved a list, of these many entries
Resolved(h) == h.kind = "batch" /\ h.response.defined /\ h.response.hasRs

Has(seq, x) == \E i \in 1..Len(seq) : seq[i] = x

NoDispatch(h) ==
    /\ h.encodes = <<>> /\ h.sent = <<>>
    /\ ~Has(h.trace, "encode") /\ ~Has(h.trace, "send")

EncodeFailures(h) == {i \in 1..Len(h.console) : h.console[i].at = "encode"}

EmptyParticipantsAnswer(a) ==
    /\ a.code = 500 /\ a.status = "EmptyParticipants"
    /\ a.err = [kind |-> "string", v |-> <<"Participant list is empty">>]

\* C1: a batch request whose registry query returns a list of zero entries is
\* answered EmptyParticipants, and at no later point does it encode a credential
\* or hand a message to mail.send
C1_EmptyListNoDispatch ==
    \A r \in Requests :
        LET h == handler[r] IN
        (Resolved(h) /\ Len(h.response.rs) = 0) =>
            /\ h.pc = "done"
            /\ Len(h.res) = 1 /\ EmptyParticipantsAnswer(h.res[1])
            /\ NoDispatch(h)

C1_Witness ==
    \E r \in Requests :
        /\ Resolved(handler[r]) /\ Len(handler[r].response.rs) = 0
        /\ handler[r].pc = "done" /\ handler[r].calls # <<>>

\* C2: once the batch handler has stopped on a resolved non-empty list, every
\* one of the N recipients has had its delivery attempt, in list order, and the
\* handler ran to completion
C2_EveryRecipientAttempted ==
    \A r \in Requests :
        LET h == handler[r] IN
        (Resolved(h) /\ Len(h.response.rs) > 0 /\ Stopped(h)) =>
            /\ h.pc = "done"
            /\ Len(h.sent) = Len(h.response.rs)
            /\ \A i \in 1..Len(h.sent) : h.sent[i].to = h.response.rs[i].email

\* C3: once the batch handler has stopped on N resolved recipients with exactly
\* one recorded credential-encoding failure, exactly N-1 delivery attempts were
\* made and the batch completed
C3_OneEncodingFailureSkipsOne ==
    \A r \in Requests :
        LET h == handler[r] IN
        (Resolved(h) /\ Len(h.response.rs) > 0 /\ Stopped(h)
            /\ Cardinality(EncodeFailures(h)) = 1) =>
            /\ h.pc = "done"
            /\ Len(h.sent) = Len(h.response.rs) - 1

\* the attachment content the claim expects for a recipient
OwnCredential(email, eventName) == StripHeader(ToDataURL(Md5(email \o eventName)))

C5_SuccessBeforeDispatch ==
    \A r \in Requests :
        LET h == handler[r] IN
        (Resolved(h) /\ Len(h.response.rs) > 0) =>
            /\ Len(h.res) = 1
            /\ h.res[1].code = 200 /\ h.res[1].status = "success"
            /\ h.res[1].err.kind = "null"
            /\ h.res[1].participants = Len(h.response.rs)
            /\ \E i \in 1..Len(h.trace) :
                 /\ h.trace[i] = "respond"
                 /\ \A j \in 1..Len(h.trace) :
                      h.trace[j] \in {"encode", "send", "settled"} => i < j

C5_Witness ==
    \E r \in Requests :
        /\ Resolved(handler[r]) /\ Len(handler[r].response.rs) = 2
        /\ handler[r].res # <<>> /\ Has(handler[r].trace, "encode")

\* C6: when the registry call fails or times out the caller gets the
\* EmptyParticipants answer, the same as the answer to a zero-entry result, the
\* error is only logged, and nothing is encoded or delivered
C6_RegistryErrorAsEmpty ==
    /\ \A r \in Requests :
         LET h == handler[r] IN
         (h.kind = "batch" /\ h.calls # <<>> /\ h.pc # "awaitRegistry"
             /\ ~h.response.defined) =>
             /\ h.pc = "done"
             /\ Len(h.res) = 1 /\ EmptyParticipantsAnswer(h.res[1])
             /\ Has(h.console, [at |-> "registry", e |-> "Error"])
             /\ NoDispatch(h)
    /\ \A r1, r2 \in Requests :
         LET h1 == handler[r1]
             h2 == handler[r2] IN
         (/\ h1.kind = "batch" /\ h1.calls # <<>> /\ h1.pc # "awaitRegistry"
          /\ ~h1.response.defined
          /\ Resolved(h2) /\ Len(h2.response.rs) = 0) => h1.res = h2.res

C6_Witness ==
    \E r1, r2 \in Requests :
        /\ handler[r1].calls # <<>> /\ handler[r1].pc = "done"
        /\ ~handler[r1].response.defined
        /\ Resolved(handler[r2]) /\ Len(handler[r2].response.rs) = 0

\* what the routes require of a request, read off the received fields
BadBatchRequest(q) ==
    \/ q.eventName = <<>> \/ q.mailSubject = "" \/ q.mailBody = <<>>
    \/ q.sendTo \notin {"absent", "present", "both"}
    \/ q.gender \notin {"male", "female", "both"}
    \/ q.isMarkdown \notin {JsTrue, JsFalse, "true", "false", "1", "0"}
    \/ q.day \notin {"0", "1", "2", "3"}

BadDirectRequest(q) ==
    \/ q.eventName = <<>> \/ q.mailSubject = "" \/ q.mailBody = <<>>
    \/ q.isMarkdown \notin {JsTrue, JsFalse, "true", "false", "1", "0"}
    \/ ~IsEmail(q.customEmail)

\* C7: a request that fails validation, on either endpoint, is answered
\* ValidationFailed and makes no registry call, no credential encoding and no
\* delivery attempt
C7_ValidationGate ==
    \A r \in Requests :
        LET h == handler[r] IN
        (\/ h.kind = "batch" /\ BadBatchRequest(h.req)
         \/ h.kind = "direct" /\ BadDirectRequest(h.req)) =>
            /\ h.pc = "done"
            /\ Len(h.res) = 1
            /\ h.res[1].code = 422 /\ h.res[1].status = "ValidationFailed"
            /\ h.res[1].err.kind = "array" /\ h.res[1].err.v # <<>>
            /\ h.calls = <<>>
            /\ NoDispatch(h)

C7_Witness ==
    \E r1, r2 \in Requests :
        /\ handler[r1].kind = "direct" /\ handler[r1].req.customEmail = BadAddr
        /\ handler[r1].req.eventName # <<>>
        /\ handler[r2].kind = "batch" /\ BadBatchRequest(handler[r2].req)

\* C8: a validated direct request whose credential encoding succeeded makes
\* exactly one delivery attempt and no registry call, and is answered only once
\* that attempt has settled: success exactly when it succeeded, else MailNotSent
\* with the provider's error
C8_DirectAnswerFollowsDelivery ==
    \A r \in Requests :
        LET h == handler[r] IN
        (h.kind = "direct" /\ h.code.defined) =>
            /\ h.calls = <<>>
            /\ Len(h.sent) = 1 /\ h.sent[1].to = h.req.customEmail
            /\ h.pc \in {"awaitSend", "done"}
            /\ h.pc = "awaitSend" => h.res = <<>> /\ h.settled = <<>>
            /\ h.pc = "done" =>
                 /\ h.trace = <<"encode", "send", "settled", "respond">>
                 /\ Len(h.settled) = 1 /\ Len(h.res) = 1
                 /\ (h.res[1].code = 200 /\ h.res[1].status = "success")
                        <=> h.settled[1] = "ok"
                 /\ h.settled[1] # "ok" =>
                        /\ h.res[1].code = 500 /\ h.res[1].status = "MailNotSent"
                        /\ h.res[1].err = [kind |-> "error", v |-> <<h.settled[1]>>]

C8_Witness ==
    \E r1, r2 \in Requests :
        /\ handler[r1].kind = "direct" /\ handler[r1].pc = "done"
        /\ handler[r1].settled = <<"ok">>
        /\ handler[r2].kind = "direct" /\ handler[r2].pc = "done"
        /\ handler[r2].settled = <<"BadRequest">>

\* C9: a validated direct request whose credential encoding failed hands no
\* message to mail.send and, once its handler has stopped, has been answered
\* with a failure status
C9_EncodingFailureAnswered ==
    \A r \in Requests :
        LET h == handler[r] IN
        (h.kind = "direct" /\ EncodeFailures(h) # {} /\ Stopped(h)) =>
            /\ h.sent = <<>>
            /\ Len(h.res) = 1
            /\ h.res[1].code # 200 /\ h.res[1].status # "success"

\* a request with the presence selector masked
SelectorMasked(q) == [q EXCEPT !.sendTo = "*"]

\* C10: 'absent' and 'present' post to project-absent with the day in the
\* payload, and two requests that differ in nothing but absent/present post
\* identical upstream requests; 'both' posts to project-all with no day field
C10_AudienceRouting ==
    /\ \A r \in Requests :
         LET h == handler[r] IN
         (h.kind = "batch" /\ h.calls # <<>>) =>
             /\ Len(h.calls) = 1
             /\ h.req.sendTo \in {"absent", "present"} =>
                  /\ h.calls[1].url = "simple-projection/project-absent"
                  /\ DOMAIN h.calls[1].data = {"event", "day", "query"}
                  /\ h.calls[1].data.day = h.req.day
             /\ h.req.sendTo = "both" =>
                  /\ h.calls[1].url = "simple-projection/project-all"
                  /\ DOMAIN h.calls[1].data = {"event", "query"}
    /\ \A r1, r2 \in Requests :
         LET h1 == handler[r1]
             h2 == handler[r2] IN
         (/\ h1.kind = "batch" /\ h1.calls # <<>>
          /\ h2.kind = "batch" /\ h2.calls # <<>>
          /\ h1.req.sendTo \in {"absent", "present"}
          /\ h2.req.sendTo \in {"absent", "present"}
          /\ SelectorMasked(h1.req) = SelectorMasked(h2.req)) => h1.calls = h2.calls

C10_Witness ==
    \E r1, r2 \in Requests :
        /\ handler[r1].calls # <<>> /\ handler[r1].req.sendTo = "absent"
        /\ handler[r2].calls # <<>> /\ handler[r2].req.sendTo = "present"
        /\ SelectorMasked(handler[r1].req) = SelectorMasked(handler[r2].req)

\* C11: every upstream registry query carries key 'gender' with value 'F' when
\* the gender selector is 'female' and 'M' when it is 'male' or 'both', whatever
\* the presence selector
C11_GenderCode ==
    \A r \in Requests :
        LET h == handler[r] IN
        \A i \in 1..Len(h.calls) :
            /\ h.calls[i].data.query.key = "gender"
            /\ h.req.gender = "female" => h.calls[i].data.query.value = "F"
            /\ h.req.gender \in {"male", "both"} => h.calls[i].data.query.value = "M"
            /\ h.req.gender \in {"male", "female", "both"}

C11_Witness ==
    \E r1, r2 \in Requests :
        /\ handler[r1].calls # <<>> /\ handler[r1].req.gender = "female"
        /\ handler[r1].req.sendTo = "both"
        /\ handler[r2].calls # <<>> /\ handler[r2].req.gender = "both"
        /\ handler[r2].req.sendTo = "present"

\* the messages handed to mail.send, each with the event name of its request
Dispatched ==
    {[r |-> r, i |-> i] : r \in Requests, i \in 1..MaxRecipients + 1}

IsDispatched(d) == d.i <= Len(handler[d.r].sent)

\* C12: any two messages handed to mail.send, by either handler and in the same
\* or in different requests, that are addressed to the same email for the same
\* event name carry the same credential
C12_SameInputsSameCredential ==
    \A d1, d2 \in Dispatched :
        (/\ IsDispatched(d1) /\ IsDispatched(d2)
         /\ handler[d1.r].sent[d1.i].to = handler[d2.r].sent[d2.i].to
         /\ handler[d1.r].req.eventName = handler[d2.r].req.eventName) =>
            handler[d1.r].sent[d1.i].attachments[1].content
                = handler[d2.r].sent[d2.i].attachments[1].content

C12_Witness ==
    \E r1, r2 \in Requests :
        /\ r1 # r2
        /\ handler[r1].sent # <<>> /\ handler[r2].sent # <<>>
        /\ handler[r1].sent[1].to = handler[r2].sent[1].to
        /\ handler[r1].req.eventName = handler[r2].req.eventName
        /\ handler[r1].req.mailBody # handler[r2].req.mailBody

FlagSaysTrue(v) == v \in {JsTrue, "true", "1"}

FlagSaysFalse(v) == v \in {JsFalse, "false", "0"}

\* C13: every message handed to mail.send has, when the markup flag of its
\* request is true, the rendered form of the submitted mail body as its body and,
\* when the flag is false, the submitted mail body unchanged
C13_BodyFollowsMarkupFlag ==
    \A r \in Requests :
        LET h == handler[r] IN
        \A i \in 1..Len(h.sent) :
            /\ FlagSaysTrue(h.req.isMarkdown) => h.sent[i].html = MakeHtml(h.req.mailBody)
            /\ FlagSaysFalse(h.req.isMarkdown) => h.sent[i].html = h.req.mailBody

\* C14: within one request the registry is queried at most once, the direct path
\* makes at most one delivery attempt and the batch path at most one per entry of
\* the resolved list, whether attempts succeed or fail
C14_NoRetries ==
    \A r \in Requests :
        LET h == handler[r] IN
        /\ Len(h.calls) <= 1
        /\ Len(h.settled) <= Len(h.sent)
        /\ h.kind = "direct" => Len(h.sent) <= 1 /\ Len(h.encodes) <= 1
        /\ h.kind = "batch" =>
             /\ Len(h.sent) <= Len(h.response.rs)
             /\ \A i \in 1..Len(h.sent) : h.sent[i].to = h.response.rs[i].email

C14_Witness ==
    \E r1, r2 \in Requests :
        /\ handler[r1].kind = "direct" /\ handler[r1].pc = "done"
        /\ Len(handler[r1].sent) = 1 /\ handler[r1].settled = <<"Unavailable">>
        /\ handler[r2].kind = "batch" /\ Stopped(handler[r2])
        /\ Len(handler[r2].calls) = 1 /\ Len(handler[r2].response.rs) = 2

\* what a batch does after the registry call when every one of n recipients is
\* encoded for, composed for and delivered to in turn
SequentialTrace(n) ==
    [k \in 1..(2 + 3 * n) |->
        IF k = 1 THEN "registry"
        ELSE IF k = 2 THEN "respond"
        ELSE <<"encode", "send", "settled">>[((k - 3) % 3) + 1]]

\* C15: once the batch handler has stopped on N resolved recipients, each
\* recipient in turn went through credential encoding, then composition and
\* delivery, each recipient's steps ending before the next one's encoding; and
\* at no time is more than one delivery attempt of a request in flight
C15_SequentialPerRecipient ==
    \A r \in Requests :
        LET h == handler[r] IN
        /\ Len(h.sent) - Len(h.settled) <= 1
        /\ (Resolved(h) /\ Len(h.response.rs) > 0 /\ Stopped(h)) =>
             h.trace = SequentialTrace(Len(h.response.rs))

\* C16: no request is ever answered twice, and once its handler has stopped it
\* has been answered exactly once
C16_ExactlyOneResponse ==
    \A r \in Requests :
        LET h == handler[r] IN
        /\ Len(h.res) <= 1
        /\ Stopped(h) => Len(h.res) = 1

\* C17: the service listens only when SENDGRID_API_KEY, BASE_URL and FROM_EMAIL
\* are all set; when one is missing it never listens and no request is accepted
C17_StartupGate ==
    /\ proc = "listening" => EnvVars \subseteq env
    /\ ~(EnvVars \subseteq env) =>
         /\ proc \in {"starting", "exited"}
         /\ \A r \in Requests : handler[r] = Idle

C17_Witness ==
    /\ proc = "exited"
    /\ "SENDGRID_API_KEY" \in env /\ "FROM_EMAIL" \in env /\ "BASE_URL" \notin env

====
